---- MODULE Spec2Model ----
(***************************************************************************)
(* Model of the object store of main.go: the Storage cache (files) over    *)
(* the /storage directory (disk), the mutex that serialises Save, Load and *)
(* HandleList, and the request workers that call them concurrently.        *)
(***************************************************************************)
EXTENDS Integers, Sequences, FiniteSets, TLC

\* ---------------------------------------------------------------- bounds
NumProcs == 2
NumKeys == 2
MaxLen == 1
MaxByte == 1

Procs == 1..NumProcs
KeyNames == <<"a", "b", "c", "d">>
KeyIdx == 1..NumKeys
Keys == {KeyNames[i] : i \in KeyIdx}
Bytes == 1..MaxByte

RECURSIVE SeqsUpTo(_)
SeqsUpTo(n) ==
    IF n = 0 THEN {<<>>}
    ELSE LET S == SeqsUpTo(n - 1)
         IN  S \cup {Append(s, b) : s \in {t \in S : Len(t) = n - 1}, b \in Bytes}

\* the request bodies a client can upload ([]byte, the empty one included)
Bodies == SeqsUpTo(MaxLen)

Prefixes(data) == {SubSeq(data, 1, n) : n \in 0..Len(data)}

\* ---------------------------------------------------------------- values
\* type obj struct { name string; body []byte }
MkObj(key, data) == [name |-> key, body |-> data]
\* obj{}: the zero value (a nil body has no bytes)
ZeroObj == MkObj("", <<>>)

\* a Go map / a directory: a function whose domain is the set of present keys
EmptyMap == [k \in {} |-> ZeroObj]
Put(m, key, v) == [k \in DOMAIN m \cup {key} |-> IF k = key THEN v ELSE m[k]]
\* a lookup that never finds the key
MapGetMiss(m, key) == [v |-> ZeroObj, ok |-> FALSE]

\* v, ok := m[key]
MapGet(m, key) ==
    IF key \in DOMAIN m THEN [v |-> m[key], ok |-> TRUE]
    ELSE [v |-> ZeroObj, ok |-> FALSE]

VARIABLES
    files,      \* Storage.files: the cache
    disk,       \* the files under STORAGE_DIR: name -> bytes
    mu,         \* Storage.mu: the worker holding it, 0 when free
    pc,         \* each worker's position
    req,        \* each worker's current call, its arguments, and history taken at the call
    local,      \* each worker's local variables (Load's data, HandleList's files)
    pre,        \* history: cache and disk entry of the key when the guard was taken
    ret,        \* what each worker's last call returned
    saved,      \* history: per key, the data of the Save that succeeded in this process
    persisted   \* history: per key, the data of the last Save that succeeded, across restarts

vars == <<files, disk, mu, pc, req, local, pre, ret, saved, persisted>>

\* an optional value: <<>> is none, <<x>> is x
None == <<>>
Some(x) == <<x>>

CacheOpt(f, key) == IF key \in DOMAIN f THEN Some(f[key].body) ELSE None
DiskOpt(d, key) == IF key \in DOMAIN d THEN Some(d[key]) ELSE None
Snap(f, d, key) == [c |-> CacheOpt(f, key), d |-> DiskOpt(d, key)]

NoReq == [op |-> "none"]
NoRet == [kind |-> "none"]
NoPre == [c |-> None, d |-> None]
NoLocal == [data |-> ZeroObj, names |-> <<>>]

\* ---------------------------------------------------------------- the durable layer
\* os.WriteFile(name, data, 0644): create or truncate, write, close.
\* A failure leaves the file untouched (the open failed) or holding a prefix
\* of data (the write or the close failed).
WriteFileOutcomes(d, key, data) ==
    {[disk |-> Put(d, key, data), err |-> FALSE]}
    \cup {[disk |-> d, err |-> TRUE]}
    \cup {[disk |-> Put(d, key, pfx), err |-> TRUE] : pfx \in Prefixes(data)}

\* os.ReadFile(name): the bytes, or an error (no such file, or an I/O error)
ReadFileOutcomes(d, key) ==
    IF key \in DOMAIN d
    THEN {[data |-> d[key], err |-> FALSE, notExist |-> FALSE],
          [data |-> <<>>, err |-> TRUE, notExist |-> FALSE]}
    ELSE {[data |-> <<>>, err |-> TRUE, notExist |-> TRUE]}

\* the names of a set of keys, sorted by filename as os.ReadDir returns them
RECURSIVE SortedFrom(_, _)
SortedFrom(S, i) ==
    IF i > Len(KeyNames) THEN <<>>
    ELSE (IF KeyNames[i] \in S THEN <<KeyNames[i]>> ELSE <<>>) \o SortedFrom(S, i + 1)
SortedNames(S) == SortedFrom(S, 1)

\* os.ReadDir(STORAGE_DIR): the entries sorted by name, or an error
ReadDirOutcomes(d) ==
    {[names |-> SortedNames(DOMAIN d), err |-> FALSE],
     [names |-> <<>>, err |-> TRUE]}

\* ---------------------------------------------------------------- construction
\* NewStorage() and an empty /storage
Init ==
    /\ files = EmptyMap
    /\ disk = [k \in {} |-> <<>>]
    /\ mu = 0
    /\ pc = [p \in Procs |-> "idle"]
    /\ req = [p \in Procs |-> NoReq]
    /\ local = [p \in Procs |-> NoLocal]
    /\ pre = [p \in Procs |-> NoPre]
    /\ ret = [p \in Procs |-> NoRet]
    /\ saved = [k \in Keys |-> None]
    /\ persisted = [k \in Keys |-> None]

\* ---------------------------------------------------------------- calls
\* a request worker calls storage.Save(key, data) (HandleUpload)
CallSave(p, key, data) ==
    /\ pc[p] = "idle"
    /\ pc' = [pc EXCEPT ![p] = "SaveLock"]
    /\ req' = [req EXCEPT ![p] =
            [op |-> "Save", key |-> key, data |-> data, after |-> saved[key],
             fresh |-> (key \notin DOMAIN files /\ key \notin DOMAIN disk)]]
    /\ ret' = [ret EXCEPT ![p] = NoRet]
    /\ UNCHANGED <<files, disk, mu, local, pre, saved, persisted>>

\* a request worker calls storage.Load(key) (HandleDownload)
CallLoad(p, key) ==
    /\ pc[p] = "idle"
    /\ pc' = [pc EXCEPT ![p] = "LoadLock"]
    /\ req' = [req EXCEPT ![p] =
            [op |-> "Load", key |-> key, data |-> <<>>, after |-> saved[key],
             prev |-> IF ret[p].kind = "Load" /\ req[p].key = key /\ ~ret[p].fault
                      THEN Some([found |-> ret[p].found, body |-> ret[p].obj.body,
                                 post |-> ret[p].post])
                      ELSE None]]
    /\ ret' = [ret EXCEPT ![p] = NoRet]
    /\ UNCHANGED <<files, disk, mu, local, pre, saved, persisted>>

\* a request worker enters HandleList with a GET
CallList(p) ==
    /\ pc[p] = "idle"
    /\ pc' = [pc EXCEPT ![p] = "ListLock"]
    /\ req' = [req EXCEPT ![p] =
            [op |-> "List", key |-> "", data |-> <<>>, after |-> None, fresh |-> FALSE]]
    /\ ret' = [ret EXCEPT ![p] = NoRet]
    /\ UNCHANGED <<files, disk, mu, local, pre, saved, persisted>>

\* a Lock that does not wait for the holder
AcquireNoWait(p, from, to) ==
    /\ pc[p] = from
    /\ mu' = p
    /\ pc' = [pc EXCEPT ![p] = to]
    /\ pre' = [pre EXCEPT ![p] = Snap(files, disk, req[p].key)]
    /\ UNCHANGED <<files, disk, req, local, ret, saved, persisted>>

\* s.mu.Lock(): blocks until the mutex is free
Acquire(p, from, to) ==
    /\ pc[p] = from
    /\ mu = 0
    /\ mu' = p
    /\ pc' = [pc EXCEPT ![p] = to]
    /\ pre' = [pre EXCEPT ![p] = Snap(files, disk, req[p].key)]
    /\ UNCHANGED <<files, disk, req, local, ret, saved, persisted>>

\* a return that leaves the mutex locked
ReturnHolding(p, r) ==
    /\ mu' = mu
    /\ pc' = [pc EXCEPT ![p] = "idle"]
    /\ ret' = [ret EXCEPT ![p] = r]
    /\ local' = [local EXCEPT ![p] = NoLocal]
    /\ pre' = [pre EXCEPT ![p] = NoPre]

\* the deferred s.mu.Unlock() of a returning call
Return(p, r) ==
    /\ mu' = 0
    /\ pc' = [pc EXCEPT ![p] = "idle"]
    /\ ret' = [ret EXCEPT ![p] = r]
    /\ local' = [local EXCEPT ![p] = NoLocal]
    /\ pre' = [pre EXCEPT ![p] = NoPre]

\* ---------------------------------------------------------------- Save
SaveLock(p) == Acquire(p, "SaveLock", "SaveCheck")

\* the existence check left out
SaveExistsNever(f, key) == FALSE

\* if _, exists := s.files[key]; exists
SaveExists(f, key) == MapGet(f, key).ok

\* the insert into the cache left out
SaveCachedSkipped(f, key, data) == f

\* the cached object built without its body
SaveCachedNoBody(f, key, data) == Put(f, key, MkObj(key, <<>>))

\* s.files[key] = obj{name: key, body: data}
SaveCached(f, key, data) == Put(f, key, MkObj(key, data))

\* net/http's status codes, as the handlers use them
StatusOK == 200
StatusConflict == 409
StatusNotFound == 404
StatusInternalServerError == 500

\* HandleUpload: err = storage.Save(key, data); if err != nil { 409 } else { 200 }
UploadStatus(err) == IF err # "nil" THEN StatusConflict ELSE StatusOK

SaveRet(p, err, f, d) ==
    [kind |-> "Save", err |-> err, status |-> UploadStatus(err),
     pre |-> pre[p], post |-> Snap(f, d, req[p].key)]

\* the existence check and the insert into the cache
SaveCheck(p) ==
    /\ pc[p] = "SaveCheck"
    /\ mu = p
    /\ \/ /\ SaveExists(files, req[p].key)
          /\ Return(p, SaveRet(p, "exists", files, disk))
          /\ UNCHANGED <<files, disk, req, saved, persisted>>
       \/ /\ ~SaveExists(files, req[p].key)
          /\ files' = SaveCached(files, req[p].key, req[p].data)
          /\ pc' = [pc EXCEPT ![p] = "SaveWrite"]
          /\ UNCHANGED <<disk, mu, req, local, pre, ret, saved, persisted>>

\* err := os.WriteFile(STORAGE_DIR+"/"+key, data, 0644) and the return
SaveWrite(p) ==
    /\ pc[p] = "SaveWrite"
    /\ mu = p
    /\ \E o \in WriteFileOutcomes(disk, req[p].key, req[p].data) :
          /\ disk' = o.disk
          /\ Return(p, SaveRet(p, IF o.err THEN "write" ELSE "nil", files, o.disk))
          /\ saved' = IF o.err THEN saved
                      ELSE [saved EXCEPT ![req[p].key] = Some(req[p].data)]
          /\ persisted' = [persisted EXCEPT ![req[p].key] =
                  IF ~o.err THEN Some(req[p].data)
                  ELSE IF o.disk = disk THEN @ ELSE None]
    /\ UNCHANGED <<files, req>>

\* ---------------------------------------------------------------- Load
LoadLock(p) == Acquire(p, "LoadLock", "LoadCheck")

\* HandleDownload: data, exists := storage.Load(key); if !exists { 404 } else { 200 }
DownloadStatus(exists) == IF ~exists THEN StatusNotFound ELSE StatusOK

LoadRet(p, o, found, fault, f, d) ==
    [kind |-> "Load", obj |-> o, found |-> found, status |-> DownloadStatus(found),
     fault |-> fault, pre |-> pre[p], post |-> Snap(f, d, req[p].key)]

\* the memoizing insert left out
LoadCachedSkipped(f, key, file) == f

\* s.files[key] = obj{name: key, body: file}
LoadCached(f, key, file) == Put(f, key, MkObj(key, file))

\* the value returned after a successful read: return data, true
LoadMissResult(data, file) == data

\* the read error ignored
ReadFailedNever(o) == FALSE

\* if err != nil { return obj{}, false }
ReadFailed(o) == o.err

\* data, exists := s.files[key]; if exists { return data, true }
LoadCheck(p) ==
    /\ pc[p] = "LoadCheck"
    /\ mu = p
    /\ LET g == MapGet(files, req[p].key)
       IN  \/ /\ g.ok
              /\ Return(p, LoadRet(p, g.v, TRUE, FALSE, files, disk))
           \/ /\ ~g.ok
              /\ local' = [local EXCEPT ![p].data = g.v]
              /\ pc' = [pc EXCEPT ![p] = "LoadRead"]
              /\ UNCHANGED <<mu, pre, ret>>
    /\ UNCHANGED <<files, disk, req, saved, persisted>>

\* file, err := os.ReadFile(STORAGE_DIR + "/" + key), the insert and the return
LoadRead(p) ==
    /\ pc[p] = "LoadRead"
    /\ mu = p
    /\ \E o \in ReadFileOutcomes(disk, req[p].key) :
          \/ /\ ReadFailed(o)
             /\ Return(p, LoadRet(p, ZeroObj, FALSE, o.err /\ ~o.notExist, files, disk))
             /\ UNCHANGED files
          \/ /\ ~ReadFailed(o)
             /\ files' = LoadCached(files, req[p].key, o.data)
             /\ Return(p, LoadRet(p, LoadMissResult(local[p].data, MkObj(req[p].key, o.data)),
                                  TRUE, FALSE, files', disk))
    /\ UNCHANGED <<disk, req, saved, persisted>>

\* ---------------------------------------------------------------- HandleList
ListLock(p) == Acquire(p, "ListLock", "ListRead")

RECURSIVE Perms(_)
\* the orders in which `for key := range storage.files` can visit the keys
Perms(S) ==
    IF S = {} THEN {<<>>}
    ELSE UNION {{<<x>> \o t : t \in Perms(S \ {x})} : x \in S}

\* the second loop without its membership test
NotCachedAll(f, names) == [i \in 1..Len(names) |-> [Name |-> names[i], InCach |-> FALSE]]

RECURSIVE NotCached(_, _)
\* for _, f := range files: the entries whose name is not in the cache
NotCached(f, names) ==
    IF names = <<>> THEN <<>>
    ELSE (IF ~MapGet(f, Head(names)).ok
          THEN <<[Name |-> Head(names), InCach |-> FALSE]>> ELSE <<>>)
         \o NotCached(f, Tail(names))

Cached(order) == [i \in 1..Len(order) |-> [Name |-> order[i], InCach |-> TRUE]]

\* the keys slice HandleList encodes, for each iteration order of the map
ListKeys(f, names) == {Cached(order) \o NotCached(f, names) : order \in Perms(DOMAIN f)}

ListRet(panic, keys) ==
    [kind |-> "List", panic |-> panic, keys |-> keys,
     cached |-> DOMAIN files, stored |-> DOMAIN disk]

\* files, err := os.ReadDir(STORAGE_DIR); log.Panicf on an error (the deferred
\* Unlock runs, and net/http recovers the panic of the request's goroutine)
ListRead(p) ==
    /\ pc[p] = "ListRead"
    /\ mu = p
    /\ \E o \in ReadDirOutcomes(disk) :
          \/ /\ o.err
             /\ Return(p, ListRet(TRUE, <<>>))
          \/ /\ ~o.err
             /\ local' = [local EXCEPT ![p].names = o.names]
             /\ pc' = [pc EXCEPT ![p] = "ListBuild"]
             /\ UNCHANGED <<mu, pre, ret>>
    /\ UNCHANGED <<files, disk, req, saved, persisted>>

\* a listing that also caches every listed name
ListBuildCaching(p) ==
    /\ pc[p] = "ListBuild"
    /\ mu = p
    /\ \E keys \in {Cached(order) \o
                     [i \in 1..Len(local[p].names) |->
                        [Name |-> local[p].names[i], InCach |-> FALSE]]
                   : order \in Perms(DOMAIN files)} :
          Return(p, [kind |-> "List", panic |-> FALSE, keys |-> keys,
                     cached |-> DOMAIN files, stored |-> DOMAIN disk])
    /\ files' = [k \in DOMAIN files \cup DOMAIN disk |->
                    IF k \in DOMAIN files THEN files[k] ELSE [name |-> k, body |-> <<>>]]
    /\ UNCHANGED <<disk, req, saved, persisted>>

\* the two loops that build keys, and the encoded response
ListBuild(p) ==
    /\ pc[p] = "ListBuild"
    /\ mu = p
    /\ \E keys \in ListKeys(files, local[p].names) :
          Return(p, ListRet(FALSE, keys))
    /\ UNCHANGED <<files, disk, req, saved, persisted>>

\* ---------------------------------------------------------------- restart
\* the process ends and main() runs again: NewStorage() over the same /storage
Restart ==
    /\ files' = EmptyMap
    /\ mu' = 0
    /\ pc' = [p \in Procs |-> "idle"]
    /\ req' = [p \in Procs |-> NoReq]
    /\ local' = [p \in Procs |-> NoLocal]
    /\ pre' = [p \in Procs |-> NoPre]
    /\ ret' = [p \in Procs |-> NoRet]
    /\ saved' = [k \in Keys |-> None]
    /\ UNCHANGED <<disk, persisted>>

Next ==
    \/ \E p \in Procs, key \in Keys, data \in Bodies : CallSave(p, key, data)
    \/ \E p \in Procs, key \in Keys : CallLoad(p, key)
    \/ \E p \in Procs : CallList(p)
    \/ \E p \in Procs : SaveLock(p)
    \/ \E p \in Procs : SaveCheck(p)
    \/ \E p \in Procs : SaveWrite(p)
    \/ \E p \in Procs : LoadLock(p)
    \/ \E p \in Procs : LoadCheck(p)
    \/ \E p \in Procs : LoadRead(p)
    \/ \E p \in Procs : ListLock(p)
    \/ \E p \in Procs : ListRead(p)
    \/ \E p \in Procs : ListBuild(p)
    \/ Restart

Spec == Init /\ [][Next]_vars

\* ---------------------------------------------------------------- reading the history
Returned(p, kind) == pc[p] = "idle" /\ ret[p].kind = kind
Body(r) == Some(r.obj.body)

\* ================================================================ C1
\* C1: once Save(k, data) has returned success, a Load(k) called afterwards
\* returns (data, true), and a Save(k, data2) called afterwards returns
\* AlreadyExists, after which Load(k) still returns (data, true).
C1_SaveThenLoad ==
    \A p \in Procs :
        /\ (Returned(p, "Load") /\ req[p].after # None)
              => (ret[p].found /\ Body(ret[p]) = req[p].after)
        /\ (Returned(p, "Save") /\ req[p].after # None)
              => (ret[p].err = "exists" /\ saved[req[p].key] = req[p].after)

\* a second Save of a saved key was rejected and a Load called after it returned
C1_Witness ==
    \E p \in Procs, q \in Procs :
        /\ Returned(p, "Save") /\ req[p].after = Some(<<1>>) /\ req[p].data = <<>>
        /\ ret[p].err = "exists"
        /\ Returned(q, "Load") /\ req[q].key = req[p].key /\ req[q].after = Some(<<1>>)

\* ================================================================ C2
\* C2: after Save(k, X) succeeded and the process restarted (empty cache, the
\* durable layer unchanged), a Load(k) whose read meets no I/O error returns
\* found = true with body X.
C2_LoadAfterRestart ==
    \A p \in Procs :
        (/\ Returned(p, "Load")
         /\ ret[p].pre.c = None
         /\ ret[p].pre.d # None
         /\ ret[p].pre.d = persisted[req[p].key]
         /\ ~ret[p].fault)
        => (ret[p].found /\ Body(ret[p]) = ret[p].pre.d)

\* ================================================================ C3
\* C3: a Save of a key that is in the cache or in the durable layer when the
\* Save takes the guard fails and leaves the cache and the durable layer
\* unchanged for that key.
C3_SaveNeverOverwrites ==
    \A p \in Procs :
        (Returned(p, "Save") /\ (ret[p].pre.c # None \/ ret[p].pre.d # None))
        => (ret[p].err # "nil" /\ ret[p].post = ret[p].pre)

\* ================================================================ C4
\* C4 as stated: of the Save(k, data_i) calls made while k was absent, each
\* returns success or AlreadyExists, and AlreadyExists only when another call
\* has succeeded (exactly one success, the others AlreadyExists).
C4_ExactlyOneSuccess ==
    \A p \in Procs :
        (Returned(p, "Save") /\ req[p].fresh)
        => /\ ret[p].err \in {"nil", "exists"}
           /\ ret[p].err = "exists" => saved[req[p].key] # None

\* C4 amended: of the Save(k, data_i) calls made while k was absent, exactly
\* one passes the existence check and every other one returns AlreadyExists;
\* the one that passes returns success if its durable write succeeds and the
\* write error otherwise, so at most one call succeeds; after a success the
\* cache and the durable layer hold the data of that call for k.
C4_OnePassesTheCheck ==
    /\ \A p \in Procs :
          (Returned(p, "Save") /\ req[p].fresh)
          => /\ ret[p].err = "exists" <=> ret[p].pre.c # None
             /\ ret[p].err = "nil" =>
                   /\ ret[p].post = [c |-> Some(req[p].data), d |-> Some(req[p].data)]
                   /\ saved[req[p].key] = Some(req[p].data)
    /\ \A p \in Procs, q \in Procs :
          (/\ p # q
           /\ Returned(p, "Save") /\ Returned(q, "Save")
           /\ req[p].key = req[q].key)
          => (ret[p].err = "exists" \/ ret[q].err = "exists")
    /\ \A k \in Keys :
          saved[k] # None => (CacheOpt(files, k) = saved[k] /\ DiskOpt(disk, k) = saved[k])

\* two Saves of one absent key were in flight together: one succeeded, the
\* other was rejected
C4_Witness ==
    \E p \in Procs, q \in Procs :
        /\ Returned(p, "Save") /\ Returned(q, "Save")
        /\ req[p].fresh /\ req[q].fresh
        /\ req[p].key = req[q].key /\ req[p].data # req[q].data
        /\ ret[p].err = "nil" /\ ret[q].err = "exists"

\* ================================================================ C5
\* C5: a Save whose durable write failed leaves its key out of the cache.
C5_FailedSaveNotCached ==
    \A p \in Procs :
        (Returned(p, "Save") /\ ret[p].err = "write") => ret[p].post.c = None

\* ================================================================ C6
\* C6: whenever no operation holds the guard, every key of the cache is in
\* the durable layer with the bytes the cache holds.
C6_CacheCoherent ==
    mu = 0 =>
        \A k \in DOMAIN files : k \in DOMAIN disk /\ disk[k] = files[k].body

\* ================================================================ C7
\* C7: a Load(k) that follows a Load(k) of the same caller, with the cache
\* and durable entry of k as the first one left them and no read error in
\* either, returns the found flag and the bytes the first one returned.
C7_IdempotentLoad ==
    \A p \in Procs :
        (/\ Returned(p, "Load")
         /\ ~ret[p].fault
         /\ req[p].prev # None
         /\ ret[p].pre = req[p].prev[1].post)
        => /\ ret[p].found = req[p].prev[1].found
           /\ ret[p].obj.body = req[p].prev[1].body

\* ================================================================ C8
ListNames(keys) == {keys[i].Name : i \in 1..Len(keys)}

\* C8: a List that returns has exactly one entry for every key of the cache
\* or of the durable layer and none for another key, and an entry's inCache
\* is true exactly when its key is in the cache.
C8_ListComplete ==
    \A p \in Procs :
        (Returned(p, "List") /\ ~ret[p].panic)
        => /\ ListNames(ret[p].keys) = ret[p].cached \cup ret[p].stored
           /\ Len(ret[p].keys) = Cardinality(ret[p].cached \cup ret[p].stored)
           /\ \A i \in 1..Len(ret[p].keys) :
                 ret[p].keys[i].InCach <=> ret[p].keys[i].Name \in ret[p].cached

\* durable {a, b} with only a cached was listed
C8_Witness ==
    \E p \in Procs :
        /\ Returned(p, "List") /\ ~ret[p].panic
        /\ ret[p].cached = {"a"} /\ ret[p].stored = {"a", "b"}
        /\ Len(ret[p].keys) = 2

\* ================================================================ C9
\* C9: a Load of a key that is in neither the cache nor the durable layer
\* returns found = false and leaves the cache without the key.
C9_LoadAbsent ==
    \A p \in Procs :
        (Returned(p, "Load") /\ ret[p].pre.c = None /\ ret[p].pre.d = None)
        => (~ret[p].found /\ ret[p].post.c = None)

\* a Load of a key nobody saved returned
C9_Witness ==
    \E p \in Procs :
        /\ Returned(p, "Load") /\ ret[p].pre = NoPre
        /\ ~ret[p].found /\ ~ret[p].fault

\* ================================================================ C10
\* C10: a Load(k) called after a Save(k, data) returned success never takes
\* the miss path (it never observes k missing from the cache) and returns
\* found = true with body data, whatever the other workers do meanwhile.
C10_LoadAfterSave ==
    \A p \in Procs :
        (req[p].op = "Load" /\ req[p].after # None)
        => /\ pc[p] # "LoadRead"
           /\ CacheOpt(files, req[p].key) = req[p].after
           /\ Returned(p, "Load") => (ret[p].found /\ Body(ret[p]) = req[p].after)

\* a Load called after a successful Save returned while another worker's
\* Save of the same key was in flight
C10_Witness ==
    \E p \in Procs, q \in Procs :
        /\ Returned(p, "Load") /\ req[p].after = Some(<<1>>) /\ ret[p].found
        /\ req[q].op = "Save" /\ req[q].key = req[p].key /\ pc[q] = "SaveCheck"

\* ================================================================ C11
\* C11: an upload answers Conflict only when Save failed with AlreadyExists,
\* a server-side failure when Save failed at the durable write, and success
\* only when Save succeeded.
C11_UploadOutcome ==
    \A p \in Procs :
        Returned(p, "Save")
        => /\ ret[p].status = StatusConflict => ret[p].err = "exists"
           /\ ret[p].err = "write" => ret[p].status = StatusInternalServerError
           /\ ret[p].status = StatusOK => ret[p].err = "nil"

\* ================================================================ C12
\* C12: a Load whose durable read failed with an I/O error on a file that
\* exists is not reported to the caller as a missing object.
C12_ReadErrorNotNotFound ==
    \A p \in Procs :
        (Returned(p, "Load") /\ ret[p].fault)
        => ~(~ret[p].found /\ ret[p].status = StatusNotFound)

\* ================================================================ C13
\* C13: a List returns to its caller without panicking, also when the
\* durable layer cannot be enumerated.
C13_ListNeverPanics ==
    \A p \in Procs : Returned(p, "List") => ~ret[p].panic

\* ================================================================ C14
\* the positions between s.mu.Lock() and the deferred Unlock
InGuard == {"SaveCheck", "SaveWrite", "LoadCheck", "LoadRead", "ListRead", "ListBuild"}
\* the positions of a call blocked in s.mu.Lock()
AtLock == {"SaveLock", "LoadLock", "ListLock"}

\* C14: Save, Load and List run their cache and durable steps only while
\* holding the one guard, and at most one operation is between acquire and
\* release at any time.
C14_MutualExclusion ==
    /\ Cardinality({p \in Procs : pc[p] \in InGuard}) <= 1
    /\ \A p \in Procs : pc[p] \in InGuard <=> mu = p

\* one operation is inside the guard at its durable step while another
\* operation is blocked at the lock
C14_Witness ==
    \E p \in Procs, q \in Procs :
        /\ pc[p] \in {"SaveWrite", "LoadRead", "ListBuild"}
        /\ pc[q] \in AtLock

\* ================================================================ C15
\* C15: a Save whose key is in the cache returns AlreadyExists at the
\* existence check, with the cache map and the durable layer as they were
\* and without reaching the durable write.
C15_SaveExistingNoEffect ==
    [][\A p \in Procs :
          (SaveCheck(p) /\ req[p].key \in DOMAIN files)
          => /\ files' = files
             /\ disk' = disk
             /\ pc'[p] = "idle"
             /\ ret'[p].kind = "Save" /\ ret'[p].err = "exists"]_vars

\* a Save of a cached key returned
C15_Witness ==
    \E p \in Procs :
        /\ Returned(p, "Save") /\ ret[p].pre.c # None
        /\ ret[p].err = "exists" /\ ret[p].post = ret[p].pre

\* ================================================================ C16
\* C16: a Load whose key is in the cache returns the cached object with
\* found = true at the cache lookup, without reaching the durable read and
\* with cache and durable layer as they were, whatever the durable layer
\* holds for the key.
C16_LoadHitNoDurableAccess ==
    [][\A p \in Procs :
          (LoadCheck(p) /\ req[p].key \in DOMAIN files)
          => /\ files' = files
             /\ disk' = disk
             /\ pc'[p] = "idle"
             /\ ret'[p].kind = "Load" /\ ret'[p].found
             /\ ret'[p].obj = files[req[p].key]]_vars

\* a Load of a key that is cached and has no file returned the cached body
C16_Witness ==
    \E p \in Procs :
        /\ Returned(p, "Load") /\ ret[p].found
        /\ ret[p].pre.c = Some(<<1>>) /\ ret[p].pre.d = None
        /\ Body(ret[p]) = Some(<<1>>)

\* ================================================================ C17
\* C17: within one process lifetime a key in the cache stays in the cache
\* with its body, and a key in the durable layer stays there with its bytes.
C17_AbsentToPresentOnly ==
    [][~Restart =>
          \A k \in Keys :
             /\ k \in DOMAIN files => (k \in DOMAIN files' /\ files'[k] = files[k])
             /\ k \in DOMAIN disk => (k \in DOMAIN disk' /\ disk'[k] = disk[k])]_vars

\* ================================================================ C18
\* C18: a Load that misses the cache and reads the file leaves the key in
\* the cache with the file's bytes, and the Load of the same key that
\* follows is served from the cache with those bytes; a Load that misses
\* the cache and whose read fails leaves the cache without the key.
C18_ReadThrough ==
    \A p \in Procs :
        /\ (Returned(p, "Load") /\ ret[p].pre.c = None)
           => /\ ret[p].found => (ret[p].pre.d # None /\ ret[p].post.c = ret[p].pre.d)
              /\ ~ret[p].found => ret[p].post.c = None
              /\ ret[p].post.c # None => CacheOpt(files, req[p].key) = ret[p].post.c
        /\ (/\ Returned(p, "Load")
            /\ req[p].prev # None
            /\ req[p].prev[1].post.c # None
            /\ ret[p].pre = req[p].prev[1].post)
           => (ret[p].found /\ Body(ret[p]) = req[p].prev[1].post.c)

\* a Load read b = <<1>> from disk into the cache, and the same caller's
\* next Load of b returned
C18_Witness ==
    \E p \in Procs :
        /\ Returned(p, "Load")
        /\ req[p].prev # None
        /\ req[p].prev[1].post = [c |-> Some(<<1>>), d |-> Some(<<1>>)]
        /\ req[p].prev[1].body = <<>>
        /\ Body(ret[p]) = Some(<<1>>)

\* ================================================================ C19
\* a process start over any content of /storage left by earlier runs
LiveInit ==
    /\ files = EmptyMap
    /\ disk \in UNION {[S -> Bodies] : S \in SUBSET Keys}
    /\ mu = 0
    /\ pc = [p \in Procs |-> "idle"]
    /\ req = [p \in Procs |-> NoReq]
    /\ local = [p \in Procs |-> NoLocal]
    /\ pre = [p \in Procs |-> NoPre]
    /\ ret = [p \in Procs |-> NoRet]
    /\ saved = [k \in Keys |-> None]
    /\ persisted = [k \in Keys |-> None]

\* the steps of one process lifetime
LiveNext ==
    \/ \E p \in Procs, key \in Keys, data \in Bodies : CallSave(p, key, data)
    \/ \E p \in Procs, key \in Keys : CallLoad(p, key)
    \/ \E p \in Procs : CallList(p)
    \/ \E p \in Procs : SaveLock(p)
    \/ \E p \in Procs : SaveCheck(p)
    \/ \E p \in Procs : SaveWrite(p)
    \/ \E p \in Procs : LoadLock(p)
    \/ \E p \in Procs : LoadCheck(p)
    \/ \E p \in Procs : LoadRead(p)
    \/ \E p \in Procs : ListLock(p)
    \/ \E p \in Procs : ListRead(p)
    \/ \E p \in Procs : ListBuild(p)

\* a worker blocked in Lock() gets the mutex
LockStep(p) == SaveLock(p) \/ LoadLock(p) \/ ListLock(p)
\* a worker holding the mutex runs on to its return
GuardedStep(p) ==
    SaveCheck(p) \/ SaveWrite(p) \/ LoadCheck(p) \/ LoadRead(p) \/ ListRead(p) \/ ListBuild(p)

\* One process lifetime under the Go scheduler: a runnable goroutine runs
\* (weak fairness of the steps inside the guard), and sync.Mutex hands the
\* lock to a waiter that keeps being passed over (its starvation mode:
\* strong fairness of the acquire).
FairSpec ==
    /\ LiveInit
    /\ [][LiveNext]_vars
    /\ \A p \in Procs : WF_vars(GuardedStep(p))
    /\ \A p \in Procs : SF_vars(LockStep(p))

\* C19: the guard is never held by a worker that is not inside an
\* operation, and every started operation returns (which it does only
\* from inside the guard, so it has acquired it).
C19_GuardReleasedAndProgress ==
    /\ [](\A p \in Procs : mu = p => pc[p] \in InGuard)
    /\ \A p \in Procs : pc[p] # "idle" ~> (pc[p] = "idle" /\ ret[p].kind # "none")

\* a List left through its panic path, and afterwards another worker got
\* the guard
C19_Witness ==
    \E p \in Procs, q \in Procs :
        /\ Returned(p, "List") /\ ret[p].panic
        /\ pc[q] \in InGuard /\ mu = q

\* ================================================================ C20
LoadStep(p) == LoadLock(p) \/ LoadCheck(p) \/ LoadRead(p)
ListStep(p) == ListLock(p) \/ ListRead(p) \/ ListBuild(p)

\* C20: no step of a Load changes the durable layer, no step of a List
\* changes the cache or the durable layer, and the durable layer changes
\* only in the write step of a Save that passed the existence check.
C20_ReadsAreWriteFree ==
    [][/\ \A p \in Procs : LoadStep(p) => disk' = disk
       /\ \A p \in Procs : ListStep(p) => (files' = files /\ disk' = disk)
       /\ disk' # disk => \E p \in Procs : SaveWrite(p) /\ pre[p].c = None]_vars

\* a Load that filled the cache and a List have returned, with files on disk
C20_Witness ==
    \E p \in Procs, q \in Procs :
        /\ Returned(p, "Load") /\ ret[p].pre.c = None /\ ret[p].post.c # None
        /\ Returned(q, "List") /\ ~ret[q].panic /\ ret[q].stored # {}

====
